---------------------------- MODULE Spec2Model ----------------------------
(***************************************************************************)
(* Model of the property tax estimator endpoint, src/ptax.py: the handler  *)
(* of GET /ptax, its four calculation functions and the state_map          *)
(* registry.  Text is a tuple of one-character strings, so that the        *)
(* parser of float() and the scan of re.search can look at characters.     *)
(* Python floats are IEEE-754 binary64 values, modelled exactly: a finite  *)
(* float is sign * m * 2^e with a 53-bit mantissa m held as a              *)
(* multi-precision natural, and every arithmetic result is rounded to      *)
(* nearest, ties to even, as the hardware does.                            *)
(***************************************************************************)
EXTENDS Integers, Sequences, FiniteSets, TLC

(***************************************************************************)
(* Multi-precision naturals: little-endian tuples of limbs in 0..Base-1,   *)
(* without a most significant zero limb; <<>> is zero.                     *)
(***************************************************************************)
Base == 10^4

\* sixteen bits are moved per step of a shift
Word == 2^16

RECURSIVE BNNorm(_)
BNNorm(a) ==
  IF a = <<>> THEN a
  ELSE IF a[Len(a)] = 0 THEN BNNorm(SubSeq(a, 1, Len(a) - 1))
  ELSE a

RECURSIVE BNFromInt(_)
BNFromInt(n) ==
  IF n = 0 THEN <<>> ELSE <<n % Base>> \o BNFromInt(n \div Base)

Rest(a) == IF a = <<>> THEN <<>> ELSE Tail(a)

Limb(a) == IF a = <<>> THEN 0 ELSE a[1]

RECURSIVE BNAddC(_, _, _)
BNAddC(a, b, c) ==
  IF a = <<>> /\ b = <<>> THEN BNFromInt(c)
  ELSE LET x == Limb(a) + Limb(b) + c
       IN  <<x % Base>> \o BNAddC(Rest(a), Rest(b), x \div Base)

BNAdd(a, b) == BNAddC(a, b, 0)

RECURSIVE BNSubB(_, _, _)
BNSubB(a, b, borrow) ==
  IF a = <<>> THEN <<>>
  ELSE LET x == Limb(a) - Limb(b) - borrow
       IN  IF x < 0
           THEN <<x + Base>> \o BNSubB(Rest(a), Rest(b), 1)
           ELSE <<x>> \o BNSubB(Rest(a), Rest(b), 0)

\* a - b for a >= b
BNSub(a, b) == BNNorm(BNSubB(a, b, 0))

RECURSIVE BNCmpAt(_, _, _)
BNCmpAt(a, b, i) ==
  IF i = 0 THEN 0
  ELSE IF a[i] < b[i] THEN -1
  ELSE IF a[i] > b[i] THEN 1
  ELSE BNCmpAt(a, b, i - 1)

\* -1, 0 or 1 as a < b, a = b or a > b
BNCmp(a, b) ==
  IF Len(a) < Len(b) THEN -1
  ELSE IF Len(a) > Len(b) THEN 1
  ELSE BNCmpAt(a, b, Len(a))

RECURSIVE BNMulSmallC(_, _, _)
BNMulSmallC(a, k, c) ==
  IF a = <<>> THEN BNFromInt(c)
  ELSE LET x == a[1] * k + c
       IN  <<x % Base>> \o BNMulSmallC(Tail(a), k, x \div Base)

\* a * k for a small factor k (at most 10^5)
BNMulSmall(a, k) == BNNorm(BNMulSmallC(a, k, 0))

RECURSIVE BNMulR(_, _)
BNMulR(a, b) ==
  IF b = <<>> THEN <<>>
  ELSE BNAdd(BNMulSmallC(a, b[1], 0), <<0>> \o BNMulR(a, Tail(b)))

BNMul(a, b) == BNNorm(BNMulR(a, b))

RECURSIVE BNDivSmallR(_, _)
BNDivSmallR(a, k) ==
  IF a = <<>> THEN [q |-> <<>>, r |-> 0]
  ELSE LET hi  == BNDivSmallR(Tail(a), k)
           cur == hi.r * Base + a[1]
       IN  [q |-> <<cur \div k>> \o hi.q, r |-> cur % k]

\* quotient and remainder of a by a small divisor k (at most 10^5)
BNDivSmall(a, k) ==
  LET d == BNDivSmallR(a, k) IN [q |-> BNNorm(d.q), r |-> d.r]

\* the largest g in lo..hi with g * d <= r, by bisection
RECURSIVE BNDivDigit(_, _, _, _)
BNDivDigit(r, d, lo, hi) ==
  IF lo = hi THEN lo
  ELSE LET mid == (lo + hi + 1) \div 2
       IN  IF BNCmp(BNMulSmall(d, mid), r) <= 0
           THEN BNDivDigit(r, d, mid, hi)
           ELSE BNDivDigit(r, d, lo, mid - 1)

\* Long division from the most significant limb down: q and r are the
\* quotient and the remainder of the limbs of a above limb i.
RECURSIVE BNDivR(_, _, _, _, _)
BNDivPut(a, d, i, q, cur, g) ==
  BNDivR(a, d, i - 1, <<g>> \o q, BNSub(cur, BNMulSmall(d, g)))

BNDivLimb(a, d, i, q, cur) ==
  IF BNCmp(cur, d) < 0 THEN BNDivR(a, d, i - 1, <<0>> \o q, cur)
  ELSE BNDivPut(a, d, i, q, cur, BNDivDigit(cur, d, 1, Base - 1))

BNDivR(a, d, i, q, r) ==
  IF i = 0 THEN [q |-> BNNorm(q), r |-> r]
  ELSE BNDivLimb(a, d, i, q, BNNorm(<<a[i]>> \o r))

\* quotient and remainder of a by d > 0
BNDiv(a, d) == BNDivR(a, d, Len(a), <<>>, <<>>)

BNSquare(a) == BNMul(a, a)

BNTimesTenIf(odd, a) == IF odd THEN BNMulSmall(a, 10) ELSE a

RECURSIVE BNPow10(_)
BNPow10(n) ==
  IF n < 4 THEN <<10^n>>
  ELSE BNTimesTenIf(n % 2 = 1, BNSquare(BNPow10(n \div 2)))

\* a * 2^n
RECURSIVE BNShl(_, _)
BNShl(a, n) ==
  IF n = 0 \/ a = <<>> THEN a
  ELSE IF n >= 16 THEN BNShl(BNMulSmall(a, Word), n - 16)
  ELSE BNMulSmall(a, 2^n)

\* floor(a / 2^n), and whether bits were lost
RECURSIVE BNShr(_, _)
BNShr(a, n) ==
  IF n = 0 \/ a = <<>> THEN [q |-> a, sticky |-> FALSE]
  ELSE LET step == IF n >= 16 THEN 16 ELSE n
           d    == BNDivSmall(a, 2^step)
           rest == BNShr(d.q, n - step)
       IN  [q |-> rest.q, sticky |-> rest.sticky \/ d.r # 0]

\* floor(a / 10^n), and whether digits were lost
RECURSIVE BNDivPow10(_, _)
BNDivPow10(a, n) ==
  IF n = 0 \/ a = <<>> THEN [q |-> a, sticky |-> FALSE]
  ELSE LET step == IF n >= 4 THEN 4 ELSE n
           d    == BNDivSmall(a, 10^step)
           rest == BNDivPow10(d.q, n - step)
       IN  [q |-> rest.q, sticky |-> rest.sticky \/ d.r # 0]

RECURSIVE SmallBits(_)
SmallBits(n) == IF n = 0 THEN 0 ELSE 1 + SmallBits(n \div 2)

\* the value of a when it has at most two limbs
SmallVal(a) == Limb(a) + Limb(Rest(a)) * Base

\* the number of bits of a
RECURSIVE BitLen(_)
BitLen(a) ==
  IF Len(a) <= 2 /\ SmallVal(a) < Word THEN SmallBits(SmallVal(a))
  ELSE 16 + BitLen(BNDivSmall(a, Word).q)

BNOdd(a) == a # <<>> /\ a[1] % 2 = 1

(***************************************************************************)
(* Python floats.  cls is "fin", "inf" or "nan"; sign is 0 or 1; a finite   *)
(* non-zero float has 2^52 <= m < 2^53, zero has m = <<>> and e = 0, so     *)
(* equal floats are equal records.  Overflow gives an infinity; gradual     *)
(* underflow is not modelled, no magnitude reached here comes near it.      *)
(***************************************************************************)
MantBits == 53

Fin(sign, m, e) == [cls |-> "fin", sign |-> sign, m |-> m, e |-> e]

Zero(sign) == Fin(sign, <<>>, 0)

Inf(sign) == [cls |-> "inf", sign |-> sign, m |-> <<>>, e |-> 0]

NaN == [cls |-> "nan", sign |-> 0, m |-> <<>>, e |-> 0]

\* A finite float, or the infinity it overflows to (the largest finite
\* float is (2^53 - 1) * 2^971).
Pack(sign, m, e) == IF e > 971 THEN Inf(sign) ELSE Fin(sign, m, e)

\* h.q + h.r / 2 + (a positive fraction if sticky), rounded to the nearest
\* integer, ties to even
HalfEven(h, sticky) ==
  IF h.r = 1 /\ (sticky \/ BNOdd(h.q)) THEN BNAdd(h.q, <<1>>) ELSE h.q

\* t.q / 2 + (a positive fraction if t.sticky), rounded likewise
RoundHalf(t) == HalfEven(BNDivSmall(t.q, 2), t.sticky)

\* a rounded mantissa m: rounding up may have carried into bit 54
Carried(sign, m, e) ==
  IF m = BNShl(<<1>>, MantBits) THEN Pack(sign, BNShl(<<1>>, MantBits - 1), e + 1)
  ELSE Pack(sign, m, e)

\* drops the low bits of t but one, then rounds on that bit
RoundShifted(sign, t, sticky, e) ==
  Carried(sign, RoundHalf([q |-> t.q, sticky |-> t.sticky \/ sticky]), e)

\* RoundToFloat for N of L bits, L > 0
RoundBits(sign, N, sticky, e, L) ==
  IF L <= MantBits
  THEN Pack(sign, BNShl(N, MantBits - L), e - (MantBits - L))
  ELSE RoundShifted(sign, BNShr(N, L - MantBits - 1), sticky, e + L - MantBits)

\* The float nearest to (-1)^sign * (N + f) * 2^e, ties to even, where
\* 0 <= f < 1 and sticky says f > 0 (then N carries at least two spare bits).
RoundToFloat(sign, N, sticky, e) ==
  IF N = <<>> THEN Zero(sign) ELSE RoundBits(sign, N, sticky, e, BitLen(N))

\* the float of a small non-negative integer literal
FloatOfInt(n) == RoundToFloat(0, BNFromInt(n), FALSE, 0)

RoundQuotient(sign, d, e) == RoundToFloat(sign, d.q, d.sticky, e)

\* D * 10^x as q * 2^e, q cut to an integer with at least 64 bits
ScaledDecimal(D, x) ==
  IF x >= 0 THEN [q |-> BNMul(D, BNPow10(x)), sticky |-> FALSE]
  ELSE BNDivPow10(BNShl(D, 64 + 4 * (-x)), -x)

\* The float nearest to (-1)^sign * D * 10^x, as float() and float literals
\* give it, for D of at most 40 digits.  Beyond 10^40 the value is taken to
\* infinity and below 10^-40 to zero: float() gives there a float (possibly
\* inf or 0.0) that compares with 1e3 and with 1e12 in the same way, and the
\* handler does nothing else with a value that fails these comparisons.
FloatOfDecimal(sign, D, x) ==
  IF D = <<>> THEN Zero(sign)
  ELSE IF x > 40 THEN Inf(sign)
  ELSE IF x < -40 THEN Zero(sign)
  ELSE RoundQuotient(sign, ScaledDecimal(D, x),
                     IF x >= 0 THEN 0 ELSE -(64 + 4 * (-x)))

\* |a| and |b| of two finite floats as integers over a common power of two
Aligned(a, b) ==
  LET e == IF a.e < b.e THEN a.e ELSE b.e
  IN  [a |-> BNShl(a.m, a.e - e), b |-> BNShl(b.m, b.e - e), e |-> e]

\* -1, 0, 1 as a < b, a = b, a > b, for finite a and b
FinCmp(a, b) ==
  LET al == Aligned(a, b)
      c  == BNCmp(al.a, al.b)
  IN  IF a.m = <<>> /\ b.m = <<>> THEN 0
      ELSE IF a.sign # b.sign THEN (IF a.sign = 1 THEN -1 ELSE 1)
      ELSE IF a.sign = 1 THEN -c ELSE c

\* Python's a < b on floats: every comparison with nan is False
FloatLt(a, b) ==
  IF a.cls = "nan" \/ b.cls = "nan" THEN FALSE
  ELSE IF a.cls = "inf" THEN a.sign = 1 /\ ~(b.cls = "inf" /\ b.sign = 1)
  ELSE IF b.cls = "inf" THEN b.sign = 0
  ELSE FinCmp(a, b) = -1

\* Python's a > b on floats
FloatGt(a, b) == FloatLt(b, a)

\* Python's a * b on floats
FloatMul(a, b) ==
  LET sign == (a.sign + b.sign) % 2
  IN  IF a.cls = "nan" \/ b.cls = "nan" THEN NaN
      ELSE IF a.cls = "inf" \/ b.cls = "inf"
           THEN IF (a.cls = "fin" /\ a.m = <<>>) \/ (b.cls = "fin" /\ b.m = <<>>)
                THEN NaN ELSE Inf(sign)
      ELSE RoundToFloat(sign, BNMul(a.m, b.m), FALSE, a.e + b.e)

FloatNeg(a) == IF a.cls = "nan" THEN a ELSE [a EXCEPT !.sign = 1 - a.sign]

\* the exact sum of two finite floats aligned as al, c comparing |a| with |b|
ExactSum(a, b, al, c) ==
  IF a.sign = b.sign THEN [sign |-> a.sign, N |-> BNAdd(al.a, al.b)]
  ELSE IF c = 0 THEN [sign |-> 0, N |-> <<>>]
  ELSE IF c = 1 THEN [sign |-> a.sign, N |-> BNSub(al.a, al.b)]
  ELSE [sign |-> b.sign, N |-> BNSub(al.b, al.a)]

RoundSum(x, e) == RoundToFloat(x.sign, x.N, FALSE, e)

AddAligned(a, b, al) == RoundSum(ExactSum(a, b, al, BNCmp(al.a, al.b)), al.e)

\* Python's a + b on floats
FloatAdd(a, b) ==
  IF a.cls = "nan" \/ b.cls = "nan" THEN NaN
  ELSE IF a.cls = "inf"
       THEN IF b.cls = "inf" /\ b.sign # a.sign THEN NaN ELSE a
  ELSE IF b.cls = "inf" THEN b
  ELSE AddAligned(a, b, Aligned(a, b))

\* Python's a - b on floats
FloatSub(a, b) == FloatAdd(a, FloatNeg(b))

DivSticky(d) == [q |-> d.q, sticky |-> d.r # <<>>]

ZeroDivisionError == [cls |-> "ZeroDivisionError", sign |-> 0, m |-> <<>>, e |-> 0]

\* Python's a / b on floats
FloatDiv(a, b) ==
  LET sign == (a.sign + b.sign) % 2
  IN  IF b.cls = "fin" /\ b.m = <<>> THEN ZeroDivisionError
      ELSE IF a.cls = "nan" \/ b.cls = "nan" THEN NaN
      ELSE IF a.cls = "inf" THEN (IF b.cls = "inf" THEN NaN ELSE Inf(sign))
      ELSE IF b.cls = "inf" \/ a.m = <<>> THEN Zero(sign)
      ELSE RoundQuotient(sign,
                         DivSticky(BNDiv(BNShl(a.m, MantBits + 3), b.m)),
                         a.e - b.e - (MantBits + 3))

(***************************************************************************)
(* Text: tuples of one-character strings.                                  *)
(***************************************************************************)
Digits == <<"0", "1", "2", "3", "4", "5", "6", "7", "8", "9">>

UpperCase == <<"A", "B", "C", "D", "E", "F", "G", "H", "I", "J", "K", "L", "M",
               "N", "O", "P", "Q", "R", "S", "T", "U", "V", "W", "X", "Y", "Z">>

LowerCase == <<"a", "b", "c", "d", "e", "f", "g", "h", "i", "j", "k", "l", "m",
               "n", "o", "p", "q", "r", "s", "t", "u", "v", "w", "x", "y", "z">>

Range(t) == {t[i] : i \in DOMAIN t}

IsDigit(c) == c \in Range(Digits)

IsUpper(c) == c \in Range(UpperCase)

DigitVal(c) == (CHOOSE i \in DOMAIN Digits : Digits[i] = c) - 1

ToLower(c) ==
  IF IsUpper(c) THEN LowerCase[CHOOSE i \in DOMAIN UpperCase : UpperCase[i] = c]
  ELSE c

Lowered(t) == [i \in DOMAIN t |-> ToLower(t[i])]

\* the characters of t as one string
RECURSIVE Join(_)
Join(t) == IF t = <<>> THEN "" ELSE t[1] \o Join(Tail(t))

From(t, i) == SubSeq(t, i, Len(t))

RECURSIVE Strip(_)
Strip(t) ==
  IF t = <<>> THEN t
  ELSE IF t[1] = " " THEN Strip(Tail(t))
  ELSE IF t[Len(t)] = " " THEN Strip(SubSeq(t, 1, Len(t) - 1))
  ELSE t

\* the length of the run of digits t starts with
RECURSIVE DigitRun(_)
DigitRun(t) ==
  IF t # <<>> /\ IsDigit(t[1]) THEN 1 + DigitRun(Tail(t)) ELSE 0

\* the value of a run of digits, saturating at 10^4
RECURSIVE SmallFromDigitsR(_, _)
SmallFromDigitsR(acc, t) ==
  IF t = <<>> THEN acc
  ELSE LET n == acc * 10 + DigitVal(t[1])
       IN  SmallFromDigitsR(IF n > Base THEN Base ELSE n, Tail(t))

\* the limbs of a run of digits: four digits make one limb
RECURSIVE BNFromDigitsR(_)
BNFromDigitsR(t) ==
  IF Len(t) <= 4 THEN <<SmallFromDigitsR(0, t)>>
  ELSE <<SmallFromDigitsR(0, SubSeq(t, Len(t) - 3, Len(t)))>>
         \o BNFromDigitsR(SubSeq(t, 1, Len(t) - 4))

BNFromDigits(t) == BNNorm(BNFromDigitsR(t))

\* the decimal digits of 0 < n < 10^4, most significant first
RECURSIVE SmallDigits(_)
SmallDigits(n) ==
  IF n < 10 THEN <<Digits[n + 1]>>
  ELSE SmallDigits(n \div 10) \o <<Digits[(n % 10) + 1]>>

RECURSIVE ZeroPad(_, _)
ZeroPad(t, n) == IF Len(t) >= n THEN t ELSE ZeroPad(<<"0">> \o t, n)

\* the decimal digits of a, most significant first; <<>> for zero
RECURSIVE BNDigits(_)
BNDigits(a) ==
  IF a = <<>> THEN <<>>
  ELSE IF Len(a) = 1 THEN SmallDigits(a[1])
  ELSE BNDigits(Tail(a)) \o ZeroPad(SmallDigits(a[1]), 4)

(***************************************************************************)
(* float(text): surrounding blanks are dropped; an underscore may stand    *)
(* between two digits; then an optional sign and "inf", "infinity" or      *)
(* "nan" in any case, or a decimal numeral with an optional fraction and   *)
(* an optional exponent.  Anything else raises ValueError.                 *)
(***************************************************************************)
ValueError == [ok |-> FALSE, val |-> NaN]

Parsed(f) == [ok |-> TRUE, val |-> f]

UnderscoresOk(t) ==
  \A i \in DOMAIN t :
    t[i] = "_" => /\ i > 1 /\ i < Len(t)
                  /\ IsDigit(t[i - 1]) /\ IsDigit(t[i + 1])

RECURSIVE DropUnderscores(_)
DropUnderscores(t) ==
  IF t = <<>> THEN t
  ELSE IF t[1] = "_" THEN DropUnderscores(Tail(t))
  ELSE <<t[1]>> \o DropUnderscores(Tail(t))

\* the numeral after the sign
ParseUnsigned(sign, t) ==
  LET low   == Lowered(t)
      ni    == DigitRun(t)
      r1    == From(t, ni + 1)
      dot   == r1 # <<>> /\ r1[1] = "."
      nf    == IF dot THEN DigitRun(Tail(r1)) ELSE 0
      r2    == IF dot THEN From(r1, nf + 2) ELSE r1
      hasE  == r2 # <<>> /\ ToLower(r2[1]) = "e"
      r3    == IF hasE THEN Tail(r2) ELSE r2
      esign == IF r3 # <<>> /\ r3[1] = "-" THEN -1 ELSE 1
      r4    == IF r3 # <<>> /\ r3[1] \in {"+", "-"} THEN Tail(r3) ELSE r3
      ne    == IF hasE THEN DigitRun(r4) ELSE 0
      ex    == esign * SmallFromDigitsR(0, SubSeq(r4, 1, ne))
      mant  == SubSeq(t, 1, ni) \o (IF dot THEN SubSeq(r1, 2, nf + 1) ELSE <<>>)
  IN  IF low = <<"i", "n", "f">> \/ low = <<"i", "n", "f", "i", "n", "i", "t", "y">>
      THEN Parsed(Inf(sign))
      ELSE IF low = <<"n", "a", "n">> THEN Parsed(NaN)
      ELSE IF ni + nf = 0 THEN ValueError
      ELSE IF hasE /\ (ne = 0 \/ ne # Len(r4)) THEN ValueError
      ELSE IF ~hasE /\ r2 # <<>> THEN ValueError
      ELSE Parsed(FloatOfDecimal(sign, BNFromDigits(mant), ex - nf))

\* the sign a numeral starts with, and the rest of it
Signed(t) ==
  IF t # <<>> /\ t[1] = "-" THEN [sign |-> 1, rest |-> Tail(t)]
  ELSE IF t # <<>> /\ t[1] = "+" THEN [sign |-> 0, rest |-> Tail(t)]
  ELSE [sign |-> 0, rest |-> t]

ParseSigned(s) == ParseUnsigned(s.sign, s.rest)

ParseStripped(s) ==
  IF s = <<>> \/ ~UnderscoresOk(s) THEN ValueError
  ELSE ParseSigned(Signed(DropUnderscores(s)))

float(text) == ParseStripped(Strip(text))

(***************************************************************************)
(* f"{x:.pf}": the decimal numeral with p fraction digits nearest to the   *)
(* exact value of x, ties to even.                                         *)
(***************************************************************************)
PlaceDot(ds, p) ==
  SubSeq(ds, 1, Len(ds) - p) \o <<".">> \o SubSeq(ds, Len(ds) - p + 1, Len(ds))

\* scaled * 2^e rounded to the nearest integer, ties to even
RoundedInt(scaled, e) ==
  IF e >= 0 THEN BNShl(scaled, e) ELSE RoundHalf(BNShr(scaled, -e - 1))

FormatFixed(x, p) ==
  IF x.cls = "nan" THEN <<"n", "a", "n">>
  ELSE IF x.cls = "inf"
       THEN (IF x.sign = 1 THEN <<"-">> ELSE <<>>) \o <<"i", "n", "f">>
  ELSE (IF x.sign = 1 THEN <<"-">> ELSE <<>>)
         \o PlaceDot(ZeroPad(BNDigits(RoundedInt(BNMul(x.m, BNPow10(p)), x.e)),
                             p + 1), p)

(***************************************************************************)
(* Bounds of the requests explored.                                        *)
(***************************************************************************)
MaxValueLen == 3

MaxAddressLen == 3

ValueChars == {"1", "9", "e", "n", "a", "-", "."}

AddressChars == {"C", "A", "O", "D", "Z", "c"}

\* the texts over a set of characters, of length at most n
Texts(chars, n) == UNION {[1..k -> chars] : k \in 0..n}

(***************************************************************************)
(* The endpoint.                                                           *)
(***************************************************************************)
VARIABLES pc, request, response, calls

vars == <<pc, request, response, calls>>

\* request.query.<name>: the parameter, or '' when the URL does not carry it
QueryGet(query, name) == IF name \in DOMAIN query THEN query[name] ELSE <<>>

\* the float literals of the source
F_1e3 == FloatOfDecimal(0, <<1>>, 3)

F_1e12 == FloatOfDecimal(0, <<1>>, 12)

F_0_01143 == FloatOfDecimal(0, BNFromInt(1143), -5)

F_0_0057 == FloatOfDecimal(0, BNFromInt(57), -4)

F_0_0085 == FloatOfDecimal(0, BNFromInt(85), -4)

F_0_0117 == FloatOfDecimal(0, BNFromInt(117), -4)

\* the homestead exemption, an int that the subtraction converts to float
F_73350 == FloatOfInt(73350)

JsonNumber(f) == [number |-> f]

JsonString(t) == [string |-> t]

\* california with the decimal point of its rate one place to the right
california_tenfold(address, value) ==
  LET property_tax_effective_rate == FloatOfDecimal(0, BNFromInt(1143), -4)
      property_tax_amount == FormatFixed(FloatMul(value, property_tax_effective_rate), 2)
      information == "Based on the California statewide average property tax rate"
  IN  [property_tax_amount |-> JsonString(property_tax_amount),
       property_tax_effective_rate |-> JsonNumber(property_tax_effective_rate),
       information |-> information]

california(address, value) ==
  LET property_tax_effective_rate == F_0_01143
      property_tax_amount == FormatFixed(FloatMul(value, property_tax_effective_rate), 2)
      information == "Based on the California statewide average property tax rate"
  IN  [property_tax_amount |-> JsonString(property_tax_amount),
       property_tax_effective_rate |-> JsonNumber(property_tax_effective_rate),
       information |-> information]

colorado(address, value) ==
  LET property_tax_effective_rate == F_0_0057
      property_tax_amount == FormatFixed(FloatMul(value, property_tax_effective_rate), 2)
      information == "Based on the Colorado statewide average property tax rate"
  IN  [property_tax_amount |-> JsonString(property_tax_amount),
       property_tax_effective_rate |-> JsonNumber(property_tax_effective_rate),
       information |-> information]

\* max(x, 0): Python keeps x unless 0 > x, so a nan stays
MaxWithZero(x) == IF FloatGt(Zero(0), x) THEN Zero(0) ELSE x

\* washington_dc without the homestead exemption
washington_dc_no_exemption(amount, value) ==
  LET property_tax_amount == FloatMul(value, F_0_0085)
      property_tax_effective_rate == FloatDiv(property_tax_amount, value)
      information ==
        "Based on DC-wide property tax rate after application of homestead exemption"
  IN  [property_tax_amount |-> JsonString(FormatFixed(property_tax_amount, 2)),
       property_tax_effective_rate |->
         JsonString(FormatFixed(property_tax_effective_rate, 5)),
       information |-> information]

washington_dc(amount, value) ==
  LET assessed_value == MaxWithZero(FloatSub(value, F_73350))
      property_tax_amount == FloatMul(assessed_value, F_0_0085)
      property_tax_effective_rate == FloatDiv(property_tax_amount, value)
      information ==
        "Based on DC-wide property tax rate after application of homestead exemption"
  IN  [property_tax_amount |-> JsonString(FormatFixed(property_tax_amount, 2)),
       property_tax_effective_rate |->
         JsonString(FormatFixed(property_tax_effective_rate, 5)),
       information |-> information]

\* default computing with the Colorado rate
default_state_rate(address, value) ==
  [colorado(address, value) EXCEPT
     !.information = "Based on the nationwide average property tax rate"]

default(address, value) ==
  LET property_tax_effective_rate == F_0_0117
      property_tax_amount == FormatFixed(FloatMul(value, property_tax_effective_rate), 2)
      information == "Based on the nationwide average property tax rate"
  IN  [property_tax_amount |-> JsonString(property_tax_amount),
       property_tax_effective_rate |-> JsonNumber(property_tax_effective_rate),
       information |-> information]

state_map == [s \in {"CA", "CO", "DC"} |->
                CASE s = "CA" -> "california"
                  [] s = "CO" -> "colorado"
                  [] s = "DC" -> "washington_dc"]

\* fn(address, value) for the function named fn
Invoke(fn, address, value) ==
  CASE fn = "california"    -> california(address, value)
    [] fn = "colorado"      -> colorado(address, value)
    [] fn = "washington_dc" -> washington_dc(address, value)
    [] fn = "default"       -> default(address, value)

\* Python's None; like None it is falsy and differs from every match
None == <<>>

\* the positions where two capital letters stand side by side
Matches(address) ==
  {i \in 1..(Len(address) - 1) : IsUpper(address[i]) /\ IsUpper(address[i + 1])}

Min(S) == CHOOSE i \in S : \A j \in S : i <= j

\* a search that returns the rightmost match
re_search_last(address) ==
  IF Matches(address) = {} THEN None
  ELSE LET i == CHOOSE i \in Matches(address) : \A j \in Matches(address) : j <= i
       IN  SubSeq(address, i, i + 1)

\* re.search("[A-Z]{2}", address) and m.group(0): the leftmost match
re_search(address) ==
  IF Matches(address) = {} THEN None
  ELSE SubSeq(address, Min(Matches(address)), Min(Matches(address)) + 1)

\* a range check that rejects the two bounds as well
OutOfRange_exclusive(value) == ~(FloatGt(value, F_1e3) /\ FloatLt(value, F_1e12))

\* value < 1e3 or value > 1e12
OutOfRange(value) == FloatLt(value, F_1e3) \/ FloatGt(value, F_1e12)

\* a choice that falls back to default when the address names no state
SelectFn_fallback(address, state) ==
  IF address = <<>> \/ state = None THEN "default"
  ELSE IF Join(state) \notin DOMAIN state_map THEN "default"
  ELSE state_map[Join(state)]

\* The if/elif chain that picks the calculation function: the name of the
\* function, or "MalformedAddress" where the handler answers 400 instead.
SelectFn(address, state) ==
  IF address # <<>> /\ state = None THEN "MalformedAddress"
  ELSE IF address = <<>> THEN "default"
  ELSE IF Join(state) \notin DOMAIN state_map THEN "default"
  ELSE state_map[Join(state)]

Reply(status, body, invoked) == [status |-> status, body |-> body, calls |-> invoked]

\* a call that runs the calculation function twice
Called_twice(fn, address, value) ==
  Reply(200, Invoke(fn, address, value),
        <<[fn |-> fn, address |-> address, value |-> value],
          [fn |-> fn, address |-> address, value |-> value]>>)

Called(fn, address, value) ==
  Reply(200, Invoke(fn, address, value),
        <<[fn |-> fn, address |-> address, value |-> value]>>)

\* the handler from the choice of the calculation function on
Dispatch(fn, address, value) ==
  IF fn = "MalformedAddress"
  THEN Reply(400,
             [error |-> "Please include two-character state (e.g., CA) in address."],
             <<>>)
  ELSE Called(fn, address, value)

\* a handler that looks at the address before the range of the value
Checked_address_first(address, value) ==
  IF SelectFn(address, re_search(address)) = "MalformedAddress"
  THEN Reply(400,
             [error |-> "Please include two-character state (e.g., CA) in address."],
             <<>>)
  ELSE IF OutOfRange(value)
  THEN Reply(400, [error |-> "Value out of range"], <<>>)
  ELSE Called(SelectFn(address, re_search(address)), address, value)

\* the handler from the range check on
Checked(address, value) ==
  IF OutOfRange(value)
  THEN Reply(400, [error |-> "Value out of range"], <<>>)
  ELSE Dispatch(SelectFn(address, re_search(address)), address, value)

\* the handler after value = float(value)
Converted(query, parsed) ==
  IF ~parsed.ok
  THEN Reply(400, [error |-> "Bad value provided"], <<>>)
  ELSE Checked(QueryGet(query, "address"), parsed.val)

\* a handler without the test for a missing value
ptax_no_presence_check(query) == Converted(query, float(QueryGet(query, "value")))

\* The handler of GET /ptax: the status and body it answers with, and the
\* calculation functions it called, in order.
ptax(query) ==
  IF QueryGet(query, "value") = <<>>
  THEN Reply(400, [error |-> "No value provided"], <<>>)
  ELSE Converted(query, float(QueryGet(query, "value")))

(***************************************************************************)
(* The requests explored: the parameters below, and every text over        *)
(* ValueChars and AddressChars up to the bounds.                           *)
(***************************************************************************)
SampleValues == {
  <<"a", "b", "c">>,
  <<"n", "a", "n">>,
  <<"N", "a", "N">>,
  <<"i", "n", "f">>,
  <<"-", "i", "n", "f">>,
  <<"i", "n", "f", "i", "n", "i", "t", "y">>,
  <<"0">>,
  <<"9", "9", "9">>,
  <<"9", "9", "9", ".", "9", "9">>,
  <<"1", "0", "0", "0">>,
  <<"1", "e", "3">>,
  <<"1", "_", "0", "0", "0">>,
  <<" ", "5", "0", "0", "0", " ">>,
  <<"-", "5", "0", "0", "0">>,
  <<"5", "0", "0", "0", "0">>,
  <<"7", "3", "3", "5", "0">>,
  <<"7", "3", "3", "5", "1">>,
  <<"1", "0", "0", "0", "0", "0">>,
  <<"3", "0", "0", "0", "0", "0">>,
  <<"5", "0", "0", "0", "0", "0">>,
  <<"1", "e", "1", "2">>,
  <<"1", "0", "0", "0", "0", "0", "0", "0", "0", "0", "0", "0", "0">>,
  <<"1", "0", "0", "0", "0", "0", "0", "0", "0", "0", "0", "0", "1">>,
  <<"1", "0", "0", "0", "0", "0", "0", "0", "0", "0", "0", "0", "0", ".", "5">>,
  <<"1", "e", "1", "3">>,
  <<"1", ",", "0", "0", "0">>,
  <<"$", "5", "0", "0", "0">> }

SampleAddresses == {
  <<"1", "2", "3", " ", "M", "a", "i", "n", " ", "S", "t">>,
  <<"1", "2", "3", " ", "M", "a", "i", "n", " ", "S", "t", ",", " ", "D", "e", "n", "v", "e", "r", ",", " ", "C", "O">>,
  <<"1", " ", "I", "n", "f", "i", "n", "i", "t", "e", " ", "L", "o", "o", "p", ",", " ", "C", "u", "p", "e", "r", "t", "i", "n", "o", ",", " ", "C", "A">>,
  <<"1", "6", "0", "0", " ", "P", "e", "n", "n", "s", "y", "l", "v", "a", "n", "i", "a", " ", "A", "v", "e", ",", " ", "W", "a", "s", "h", "i", "n", "g", "t", "o", "n", ",", " ", "D", "C">>,
  <<"S", "o", "m", "e", "w", "h", "e", "r", "e", ",", " ", "Z", "Z">>,
  <<"N", "Y", "C", ",", " ", "C", "A">>,
  <<"c", "a">>,
  <<"C", "a">>,
  <<"D", "C", "A">> }

\* values that fail each check in turn, pass them all, or are not a number
ProbeValues == {<<>>, <<"a", "b", "c">>, <<"9", "9", "9">>,
                <<"5", "0", "0", "0", "0", "0">>, <<"n", "a", "n">>}

\* a malformed address, a registered state and an unregistered one
ProbeAddresses == {<<"1", "2", "3", " ", "M", "a", "i", "n", " ", "S", "t">>,
                   <<"D", "C">>, <<"Z", "Z">>}

Values == SampleValues \cup Texts(ValueChars, MaxValueLen)

Addresses == SampleAddresses \cup Texts(AddressChars, MaxAddressLen)

Absent == [present |-> FALSE, text |-> <<>>]

\* a parameter that the URL carries with one of the texts, or does not carry
Params(texts) == {[present |-> TRUE, text |-> t] : t \in texts} \cup {Absent}

\* the query of a URL with these two parameters
Query(a, v) ==
  [n \in {x \in {"address", "value"} :
            (x = "address" /\ a.present) \/ (x = "value" /\ v.present)} |->
     IF n = "address" THEN a.text ELSE v.text]

Requests ==
  {Query(a, v) : a \in Params(Addresses), v \in Params(ProbeValues)}
    \cup {Query(a, v) : a \in Params(ProbeAddresses), v \in Params(Values)}
    \cup {Query(a, v) : a \in Params(SampleAddresses), v \in Params(SampleValues)}

NoResponse == [status |-> 0, body |-> [error |-> ""]]

Init ==
  /\ pc = "listening"
  /\ request = Query(Absent, Absent)
  /\ response = NoResponse
  /\ calls = <<>>

\* a GET /ptax arrives
Receive(q) ==
  /\ pc = "listening"
  /\ pc' = "handling"
  /\ request' = q
  /\ response' = NoResponse
  /\ calls' = <<>>

\* the handler runs to its return
Handle ==
  /\ pc = "handling"
  /\ pc' = "answered"
  /\ \E r \in {ptax(request)} :
       /\ response' = [status |-> r.status, body |-> r.body]
       /\ calls' = r.calls
  /\ UNCHANGED request

\* the response is sent, and nothing of the request is kept
Send ==
  /\ pc = "answered"
  /\ pc' = "listening"
  /\ request' = Query(Absent, Absent)
  /\ response' = NoResponse
  /\ calls' = <<>>

Next == (\E q \in Requests : Receive(q)) \/ Handle \/ Send

Spec == Init /\ [][Next]_vars

(***************************************************************************)
(* Properties.  They read an answered request: the query that came in, the *)
(* response the handler returned and the calculation functions it called.  *)
(***************************************************************************)
Answered == pc = "answered"

ValueText == QueryGet(request, "value")

AddressText == QueryGet(request, "address")

\* float() accepts the value
ValueParses == ValueText # <<>> /\ float(ValueText).ok

\* the number the value parses to
ValueNumber == float(ValueText).val

\* 1000 <= v <= 1e12, which no nan satisfies
InRange(v) == v.cls = "fin" /\ ~FloatLt(v, F_1e3) /\ ~FloatGt(v, F_1e12)

ValidValue == ValueParses /\ InRange(ValueNumber)

\* v < 1000 or v > 1e12
TooSmallOrLarge ==
  ValueParses /\ (FloatLt(ValueNumber, F_1e3) \/ FloatGt(ValueNumber, F_1e12))

UpperPairAt(a, i) == i < Len(a) /\ IsUpper(a[i]) /\ IsUpper(a[i + 1])

HasUpperPair(a) == \E i \in DOMAIN a : UpperPairAt(a, i)

\* the first two capital letters of a that stand side by side
FirstUpperPair(a) ==
  LET i == CHOOSE i \in DOMAIN a :
             UpperPairAt(a, i) /\ \A j \in 1..(i - 1) : ~UpperPairAt(a, j)
  IN  <<a[i], a[i + 1]>>

\* the calculation function registered for a state code, or default
Route(s) ==
  CASE s = <<"C", "A">> -> "california"
    [] s = <<"C", "O">> -> "colorado"
    [] s = <<"D", "C">> -> "washington_dc"
    [] OTHER -> "default"

MalformedAddress == AddressText # <<>> /\ ~HasUpperPair(AddressText)

MalformedMessage == "Please include two-character state (e.g., CA) in address."

Messages == {"No value provided", "Bad value provided", "Value out of range",
             MalformedMessage}

Calculators == {"california", "colorado", "washington_dc", "default"}

\* the response is a 400 carrying this message, and nothing was calculated
Refused(message) ==
  /\ response.status = 400
  /\ response.body = [error |-> message]
  /\ calls = <<>>

\* the message of the first check the value fails, "" when it passes them
ValueFailure ==
  IF ValueText = <<>> THEN "No value provided"
  ELSE IF ~float(ValueText).ok THEN "Bad value provided"
  ELSE IF TooSmallOrLarge THEN "Value out of range"
  ELSE ""

Value500000 == <<"5", "0", "0", "0", "0", "0">>

MainStreet == <<"1", "2", "3", " ", "M", "a", "i", "n", " ", "S", "t">>

InfiniteLoop ==
  <<"1", " ", "I", "n", "f", "i", "n", "i", "t", "e", " ", "L", "o", "o", "p", ",",
    " ", "C", "u", "p", "e", "r", "t", "i", "n", "o", ",", " ", "C", "A">>

PennsylvaniaAve ==
  <<"1", "6", "0", "0", " ", "P", "e", "n", "n", "s", "y", "l", "v", "a", "n", "i",
    "a", " ", "A", "v", "e", ",", " ", "W", "a", "s", "h", "i", "n", "g", "t", "o",
    "n", ",", " ", "D", "C">>

\* C1: a value that parses to v < 1000 or v > 1e12 is answered 400 "Value out
\* of range" whatever the address; v = 1000 and v = 1e12 are not answered
\* with this error, and are answered 200 unless the address is malformed.
C1_OutOfRange ==
  Answered =>
    /\ TooSmallOrLarge => Refused("Value out of range")
    /\ (ValueParses /\ ValueNumber \in {F_1e3, F_1e12}) =>
         /\ response.body # [error |-> "Value out of range"]
         /\ ~MalformedAddress => response.status = 200

C1_Witness ==
  /\ Answered
  /\ ValueText = <<"9", "9", "9">>
  /\ AddressText = <<"D", "C">>
  /\ Refused("Value out of range")

\* C2: whatever the address, a missing or empty value is answered 400 "No
\* value provided" and a non-empty value that float() rejects is answered 400
\* "Bad value provided"; no calculation function is called in either case.
C2_MissingOrBadValue ==
  Answered =>
    /\ ValueText = <<>> => Refused("No value provided")
    /\ (ValueText # <<>> /\ ~float(ValueText).ok) => Refused("Bad value provided")

C2_Witness ==
  /\ Answered
  /\ "value" \notin DOMAIN request
  /\ AddressText = <<"D", "C">>
  /\ Refused("No value provided")

\* C3: a valid value with a non-empty address that holds no two capital
\* letters side by side is answered 400 with the malformed-address message,
\* and no calculation function is called.
C3_MalformedAddress ==
  (Answered /\ ValidValue /\ MalformedAddress) => Refused(MalformedMessage)

C3_Witness ==
  /\ Answered
  /\ ValueText = Value500000
  /\ AddressText = MainStreet
  /\ Refused(MalformedMessage)

\* C4: a valid value v without an address is answered 200 with the output of
\* default: the amount v * 0.0117 with two decimals as a string, the rate
\* 0.0117 and the nationwide-average text.
C4_DefaultWithoutAddress ==
  (Answered /\ ValidValue /\ AddressText = <<>>) =>
    /\ response.status = 200
    /\ response.body =
         [property_tax_amount |->
            JsonString(FormatFixed(FloatMul(ValueNumber, F_0_0117), 2)),
          property_tax_effective_rate |-> JsonNumber(F_0_0117),
          information |-> "Based on the nationwide average property tax rate"]

C4_Witness ==
  /\ Answered
  /\ "address" \notin DOMAIN request
  /\ ValueText = Value500000
  /\ response.status = 200
  /\ Join(response.body.property_tax_amount.string) = "5850.00"

\* C5: with a valid value and an address that holds two capital letters side
\* by side, the one calculation function called is the one registered for
\* the first such pair (CA, CO, DC), and default for any other first pair,
\* even when a registered code stands later in the address.
C5_FirstPairRoutes ==
  (Answered /\ ValidValue /\ HasUpperPair(AddressText)) =>
    /\ response.status = 200
    /\ Len(calls) = 1
    /\ calls[1].fn = Route(FirstUpperPair(AddressText))

C5_Witness ==
  /\ Answered
  /\ ValueText = Value500000
  /\ AddressText = <<"N", "Y", "C", ",", " ", "C", "A">>
  /\ Len(calls) = 1
  /\ calls[1].fn = "default"

\* C6, as the code has it: address "1 Infinite Loop, Cupertino, CA" with
\* value "500000" is answered 200 by california with the amount "5715.00"
\* (500000 * 0.01143 with two decimals) and the rate 0.01143.
C6_CaliforniaExample ==
  (Answered /\ AddressText = InfiniteLoop /\ ValueText = Value500000) =>
    /\ response.status = 200
    /\ Len(calls) = 1 /\ calls[1].fn = "california"
    /\ Join(response.body.property_tax_amount.string) = "5715.00"
    /\ response.body.property_tax_effective_rate
         = JsonNumber(FloatOfDecimal(0, BNFromInt(1143), -5))

C6_Witness ==
  /\ Answered
  /\ AddressText = InfiniteLoop
  /\ ValueText = Value500000
  /\ Join(response.body.property_tax_amount.string) = "5715.00"

\* C6, as stated: the same request is answered with the amount "57150.00".
C6_AsStated ==
  (Answered /\ AddressText = InfiniteLoop /\ ValueText = Value500000) =>
    /\ response.status = 200
    /\ Join(response.body.property_tax_amount.string) = "57150.00"
    /\ response.body.property_tax_effective_rate
         = JsonNumber(FloatOfDecimal(0, BNFromInt(1143), -5))

C8_OneCalculatorWhenAnswered ==
  Answered =>
    /\ response.status \in {200, 400}
    /\ response.status = 400 => calls = <<>>
    /\ response.status = 200 =>
         /\ Len(calls) = 1
         /\ calls[1].fn \in Calculators
         /\ calls[1].fn = IF HasUpperPair(AddressText)
                          THEN Route(FirstUpperPair(AddressText))
                          ELSE "default"
         /\ response.body = Invoke(calls[1].fn, calls[1].address, calls[1].value)

C8_Witness ==
  /\ Answered
  /\ response.status = 200
  /\ Len(calls) = 1
  /\ calls[1].fn = "colorado"

\* C8, as stated: every request, the refused ones too, called exactly one
\* calculation function.
C8_AsStated == Answered => Len(calls) = 1

\* C9: the value passed to a calculation function is a finite number v with
\* 1000 <= v <= 1e12.
C9_CalculatedValueInRange ==
  Answered => \A i \in DOMAIN calls : InRange(calls[i].value)

\* the value "nan" without an address: default is called with nan
C9_NanCalculated ==
  /\ Answered
  /\ ValueText = <<"n", "a", "n">>
  /\ AddressText = <<>>
  /\ response.status = 200
  /\ Len(calls) = 1
  /\ calls[1].value = NaN
  /\ Join(response.body.property_tax_amount.string) = "nan"

\* C10: the value is checked for presence, then parsed, then checked for its
\* range, and only then is the address looked at: a request is refused with
\* the message of the first check its value fails, the malformed-address
\* message is given only to a value that passes them all, and a 400 response
\* carries exactly one of the four messages.
C10_ValueErrorFirst ==
  Answered =>
    /\ ValueFailure # "" => Refused(ValueFailure)
    /\ response.body = [error |-> MalformedMessage] =>
         ValueFailure = "" /\ MalformedAddress
    /\ response.status = 400 =>
         DOMAIN response.body = {"error"} /\ response.body.error \in Messages

C10_Witness ==
  /\ Answered
  /\ ValueText = <<"9", "9", "9">>
  /\ AddressText = MainStreet
  /\ Refused("Value out of range")

=============================================================================
